---- MODULE Spec2Model ----
(***************************************************************************)
(* The session store and the /mcp dispatcher of the punchh-mcp gateway.    *)
(*                                                                         *)
(* The repository holds two entry points with the same dispatcher:         *)
(*   src/server.ts          no inbound authentication, registers           *)
(*                          transport.onclose (line 85)                    *)
(*   src/unnamed/part_000   bearer-token middleware (lines 14-24) and a    *)
(*                          /healthz route, registers no onclose handler   *)
(* prog says which of the two is running; it is fixed by Init.             *)
(*                                                                         *)
(* One step of the model is one turn of the Node.js event loop: the        *)
(* synchronous part of a handler up to its next await.                     *)
(***************************************************************************)
EXTENDS Naturals, Integers, Sequences, FiniteSets, TLC

\* Bounds of the model.
MaxSessions == 2   \* transports constructed in one run
MaxInFlight == 1   \* handlers of one session awaiting the upstream's reply

\* JavaScript's undefined (an absent header, an unset environment variable).
Undefined == "<undefined>"

Programs == {"server.ts", "part_000"}

\* crypto.randomUUID(): the n-th identifier drawn. Identifiers drawn at
\* different times differ (122 random bits).
UuidPool == <<"uuid-1", "uuid-2", "uuid-3", "uuid-4", "uuid-5", "uuid-6">>

\* Property names every plain object {} inherits from Object.prototype.
ObjectPrototypeKeys == {"constructor", "__proto__"}

Transports == 1..MaxSessions

VARIABLES
  prog,        \* which entry point runs
  secret,      \* process.env.MCP_SHARED_SECRET
  transports,  \* the session store: own keys of the object `transports`
  tr,          \* the StreamableHTTPServerTransport objects constructed so far
  issued,      \* every identifier the sessionIdGenerator has returned
  ev,          \* the step just taken: the request and the answer it got
  inflight,    \* per transport: tool handlers suspended at `await fetch`
  call         \* one tool invocation, followed through the registry and
               \* its handler (specification SpecTools)

vars == <<prog, secret, transports, tr, issued, ev, inflight, call>>

-----------------------------------------------------------------------------
\* Requests

SessionHeaders ==
  {Undefined, "", "constructor"} \cup {UuidPool[n] : n \in 1..MaxSessions}

AuthHeaders == {Undefined, "Bearer s3cret", "Bearer undefined"}

Bodies == {"initialize", "invocation", "malformed"}

\* accept: the request carries the Accept / Content-Type headers the
\* streamable HTTP transport requires for the initiation handshake.
McpRequests ==
  [path : {"/mcp"}, auth : AuthHeaders, sid : SessionHeaders,
   body : {"initialize"}, accept : BOOLEAN]
  \cup
  [path : {"/mcp"}, auth : AuthHeaders, sid : SessionHeaders,
   body : Bodies \ {"initialize"}, accept : {TRUE}]

HealthRequests ==
  [path : {"/healthz"}, auth : AuthHeaders, sid : {Undefined},
   body : {"malformed"}, accept : {TRUE}]

\* server.ts never reads the Authorization header: one value stands for all.
Requests ==
  IF prog = "part_000" THEN McpRequests \cup HealthRequests
  ELSE {r \in McpRequests \cup HealthRequests : r.auth = Undefined}

\* What the auth middleware reads of a request: its path and Authorization.
AuthView(req) ==
  [path |-> req.path, auth |-> req.auth, sid |-> Undefined, body |-> "-",
   accept |-> FALSE]

NoRequest ==
  [path |-> "-", auth |-> Undefined, sid |-> Undefined, body |-> "-",
   accept |-> FALSE]

-----------------------------------------------------------------------------
\* JavaScript values

\* ToBoolean of a string | undefined.
Truthy(s) == s # Undefined /\ s # ""

\* `${s}` in a template literal.
TemplateString(s) == IF s = Undefined THEN "undefined" ELSE s

-----------------------------------------------------------------------------
\* Transport objects

NewTransport ==
  [phase |-> "unborn", sessionId |-> Undefined, closed |-> FALSE,
   accept |-> FALSE]

Constructed == {t \in Transports : tr[t].phase # "unborn"}

\* The session state machine of the specification, read off the transport.
SessionState(t) ==
  IF tr[t].phase = "unborn" THEN "None"
  ELSE IF tr[t].closed THEN "Closed"
  ELSE IF tr[t].sessionId # Undefined THEN "Active"
  ELSE "Uninitialized"

-----------------------------------------------------------------------------
\* The session store

\* transports[sid]: the own property, else what Object.prototype provides.
\* transport = 0 stands for a value that is no transport.
Lookup(store, sid) ==
  IF sid \in DOMAIN store THEN [truthy |-> TRUE, transport |-> store[sid]]
  ELSE IF sid \in ObjectPrototypeKeys THEN [truthy |-> TRUE, transport |-> 0]
  ELSE [truthy |-> FALSE, transport |-> 0]

\* transports[sid] = transport
StorePut(store, sid, t) ==
  [k \in DOMAIN store \cup {sid} |-> IF k = sid THEN t ELSE store[k]]

\* A removal written as keys.splice(keys.indexOf(sid), 1): for a key that is
\* absent indexOf gives -1 and the last entry goes.
StoreDeleteSplice(store, sid) ==
  IF sid \in DOMAIN store THEN [k \in DOMAIN store \ {sid} |-> store[k]]
  ELSE IF DOMAIN store = {} THEN store
  ELSE LET last == CHOOSE k \in DOMAIN store :
                     \A j \in DOMAIN store : store[j] <= store[k]
       IN [k \in DOMAIN store \ {last} |-> store[k]]

\* delete transports[sid]
StoreDelete(store, sid) ==
  [k \in DOMAIN store \ {sid} |-> store[k]]

\* A check that accepts any well-formed JSON-RPC request.
isInitializeRequestLoose(body) == body # "malformed"

isInitializeRequest(body) == body = "initialize"

\* A generator that numbers the sessions now open.
randomUUIDFromOpenCount == UuidPool[Cardinality(DOMAIN transports) + 1]

\* sessionIdGenerator: () => randomUUID()
randomUUID == UuidPool[Cardinality(issued) + 1]

\* One `transport` variable shared by all requests: the closure sees the
\* transport constructed last.
CapturedTransportShared(t) == Cardinality(Constructed)

\* The transport the onsessioninitialized closure of transport t refers to:
\* `transport` is a `let` of the request's own handler invocation.
CapturedTransport(t) == t

\* onsessioninitialized: (sid) => { transports[sid] = transport; }
onsessioninitialized(store, sid, t) == StorePut(store, sid, CapturedTransport(t))

\* A registration made before the handshake, transports[transport.sessionId],
\* while sessionId is still undefined.
StoreAfterConnectEager(store, t) == StorePut(store, "undefined", t)

\* What construction of the transport and mcp.connect do to the store: nothing.
StoreAfterConnect(store, t) == store

\* A close handler that resets the whole store (transports = {}).
oncloseReset(store, t) == IF prog = "server.ts" THEN <<>> ELSE store

\* transport.onclose of transport t.
onclose(store, t) ==
  IF prog = "server.ts"
  THEN IF Truthy(tr[t].sessionId) THEN StoreDelete(store, tr[t].sessionId)
       ELSE store
  ELSE store

-----------------------------------------------------------------------------
\* The auth middleware: "next", or the status it answers with.

AuthMiddleware(req) ==
  IF prog = "server.ts" THEN "next"
  ELSE IF req.path = "/healthz" THEN "next"
  ELSE IF ~Truthy(secret) THEN "500"
  ELSE IF req.auth # "Bearer " \o TemplateString(secret) THEN "401"
  ELSE "next"

-----------------------------------------------------------------------------
\* Tool calls of a session

\* What the registry makes of the tools/call in an invocation body: the
\* tool is registered and the arguments pass its schema ("ok"), or the call
\* is refused with InvalidParams, -32602. SpecTools follows one call through
\* these checks in detail.
RegistryVerdicts(body) ==
  IF body = "invocation" THEN {"ok", "UnknownOperation", "InvalidArguments"}
  ELSE {"none"}

\* The handlers suspended at `await fetch` after a call with this verdict was
\* handed to the session of transport t: an accepted call adds one.
ToolCallStarted(fl, t, verdict) ==
  IF t \in Transports /\ verdict = "ok" THEN [fl EXCEPT ![t] = @ + 1] ELSE fl

\* A close that cancelled the handlers awaiting the upstream.
InFlightAfterCloseCancelled(n) == 0

\* What becomes of the n suspended handlers of a transport that closes: they
\* stay suspended (nothing passes an AbortSignal to fetch).
InFlightAfterClose(n) == n

\* A handler that puts its session back when it completes.
StoreAfterCallReRegister(store, t) == StorePut(store, tr[t].sessionId, t)

\* A handler that evicts its session when it completes.
StoreAfterCallEvict(store, t) == StoreDelete(store, tr[t].sessionId)

\* What a tool handler does to the store: nothing.
StoreAfterCall(store, t) == store

\* No tool invocation is being followed.
NoCall == [pc |-> "idle"]

-----------------------------------------------------------------------------
Event(kind, req, status, code, t, sstate) ==
  [kind |-> kind, req |-> req, status |-> status, code |-> code, t |-> t,
   sstate |-> sstate]

Init ==
  /\ prog \in Programs
  /\ secret \in IF prog = "part_000" THEN {Undefined, "", "s3cret"}
                 ELSE {Undefined}
  /\ transports = <<>>
  /\ tr = [t \in Transports |-> NewTransport]
  /\ issued = {}
  /\ ev = Event("start", NoRequest, 0, 0, 0, "None")
  /\ inflight = [t \in Transports |-> 0]
  /\ call = NoCall

\* app.post('/mcp') up to its first await.
McpPost(req) ==
  LET found == Lookup(transports, req.sid) IN
  IF Truthy(req.sid) /\ found.truthy
  THEN \* transport = transports[sid]; await transport.handleRequest(...)
       \* The session hands a tools/call to the registry: an unregistered
       \* tool or invalid arguments are answered at once (-32602), a valid
       \* call runs its handler up to `await fetch`.
       /\ UNCHANGED <<transports, tr, issued>>
       /\ \E verdict \in RegistryVerdicts(req.body) :
            /\ inflight' = ToolCallStarted(inflight, found.transport, verdict)
            /\ \A t \in Transports : inflight'[t] <= MaxInFlight
            /\ ev' = IF found.transport = 0
                     THEN Event("TypeError", req, 0, 0, 0, "None")
                     ELSE IF isInitializeRequest(req.body)
                     THEN Event("forwarded", req, 400, -32600, found.transport,
                                SessionState(found.transport))
                     ELSE IF verdict \in {"UnknownOperation", "InvalidArguments"}
                     THEN Event("forwarded", req, 200, -32602, found.transport,
                                SessionState(found.transport))
                     ELSE Event("forwarded", req, 200, 0, found.transport,
                                SessionState(found.transport))
  ELSE IF ~Truthy(req.sid) /\ isInitializeRequest(req.body)
  THEN \* new StreamableHTTPServerTransport(...); await mcp.connect(transport)
       LET t == Cardinality(Constructed) + 1 IN
       /\ t <= MaxSessions
       /\ tr' = [tr EXCEPT ![t] = [phase |-> "connecting",
                                   sessionId |-> Undefined, closed |-> FALSE,
                                   accept |-> req.accept]]
       /\ transports' = StoreAfterConnect(transports, t)
       /\ UNCHANGED <<issued, inflight>>
       /\ ev' = Event("constructed", req, 0, 0, t, "Uninitialized")
  ELSE \* res.status(400).json({... code: -32000 ...})
       /\ UNCHANGED <<transports, tr, issued, inflight>>
       /\ ev' = Event("rejected", req, 400, -32000, 0, "None")

\* One inbound HTTP request: the middleware chain and the route it reaches.
Request(req) ==
  /\ UNCHANGED <<prog, secret, call>>
  /\ LET auth == AuthMiddleware(req) IN
     IF auth = "500"
     THEN /\ UNCHANGED <<transports, tr, issued, inflight>>
          /\ ev' = Event("misconfigured", AuthView(req), 500, 0, 0, "None")
     ELSE IF auth = "401"
     THEN /\ UNCHANGED <<transports, tr, issued, inflight>>
          /\ ev' = Event("unauthorized", AuthView(req), 401, 0, 0, "None")
     ELSE IF req.path = "/healthz"
     THEN /\ UNCHANGED <<transports, tr, issued, inflight>>
          /\ ev' = IF prog = "part_000"
                   THEN Event("healthz", req, 200, 0, 0, "None")
                   ELSE Event("noroute", req, 404, 0, 0, "None")
     ELSE McpPost(req)

\* mcp.connect(transport) resolves and transport.handleRequest(req, res, body)
\* runs the initiation handshake of transport t.
Handshake(t) ==
  /\ tr[t].phase = "connecting"
  /\ UNCHANGED <<prog, secret, inflight, call>>
  /\ IF tr[t].accept
     THEN LET sid == randomUUID IN
          /\ issued' = issued \cup {sid}
          /\ tr' = [tr EXCEPT ![t].phase = "initialized", ![t].sessionId = sid]
          /\ transports' = onsessioninitialized(transports, sid, t)
          /\ ev' = Event("initialized", NoRequest, 200, 0, t, "Active")
     ELSE /\ tr' = [tr EXCEPT ![t].phase = "failed"]
          /\ UNCHANGED <<transports, issued>>
          /\ ev' = Event("handshakeFailed", NoRequest, 406, -32000, t,
                         "Uninitialized")

\* The transport of an established session signals closure; the signal may be
\* delivered again to a transport that has closed already. ev.sstate is the
\* session's state when the signal arrived.
Close(t) ==
  /\ tr[t].phase = "initialized"
  /\ UNCHANGED <<prog, secret, issued, call>>
  /\ tr' = [tr EXCEPT ![t].closed = TRUE]
  /\ transports' = onclose(transports, t)
  /\ inflight' = [inflight EXCEPT ![t] = InFlightAfterClose(@)]
  /\ ev' = Event("close", NoRequest, 0, 0, t, SessionState(t))

\* The upstream answers a call made for session t and the handler runs to its
\* end (ok: a 2xx status). The result goes back on the session's transport;
\* a transport that has closed has no response stream left and the result is
\* dropped.
UpstreamReply(t, ok) ==
  /\ inflight[t] > 0
  /\ UNCHANGED <<prog, secret, tr, issued, call>>
  /\ transports' = StoreAfterCall(transports, t)
  /\ inflight' = [inflight EXCEPT ![t] = @ - 1]
  /\ ev' = IF tr[t].closed
           THEN Event("discarded", NoRequest, 0, 0, t, SessionState(t))
           ELSE Event(IF ok THEN "callResult" ELSE "callFailed", NoRequest,
                      200, 0, t, SessionState(t))

Next ==
  \/ \E req \in Requests : Request(req)
  \/ \E t \in Transports : Handshake(t)
  \/ \E t \in Transports : Close(t)
  \/ \E t \in Transports, ok \in BOOLEAN : UpstreamReply(t, ok)

Spec == Init /\ [][Next]_vars

-----------------------------------------------------------------------------
\* Properties. ev' describes the step taken: every action sets it.

\* The step is a request to /mcp that the dispatcher (app.post('/mcp')) handled.
Dispatched(e) ==
  e.req.path = "/mcp" /\ e.kind \notin {"unauthorized", "misconfigured"}

StoreUntouched == transports' = transports /\ tr' = tr /\ issued' = issued

\* C1: a request without a session identifier whose body is a valid
\* initiation request makes the dispatcher construct a session; the
\* identifier its handshake draws was never issued before (closed sessions
\* included), and right after the handshake a lookup of it gives that session.
C1_FreshSessionOnInit ==
  [][ /\ (Dispatched(ev') /\ ev'.req.sid \in {Undefined, ""}
            /\ ev'.req.body = "initialize")
         => /\ ev'.kind = "constructed"
            /\ tr[ev'.t].phase = "unborn"
            /\ tr'[ev'.t].phase = "connecting"
      /\ ev'.kind = "initialized"
         => LET sid == tr'[ev'.t].sessionId IN
            /\ sid \notin {Undefined, ""}
            /\ sid \notin issued
            /\ \A t \in Transports : tr[t].sessionId # sid
            /\ Lookup(transports', sid) = [truthy |-> TRUE, transport |-> ev'.t]
    ]_vars

\* C1 witness: a handshake has completed after an earlier session closed.
C1_Witness ==
  /\ ev.kind = "initialized"
  /\ \E t \in Transports : t # ev.t /\ tr[t].closed
  /\ Lookup(transports, tr[ev.t].sessionId).transport = ev.t

\* C2: once a session's transport has signalled closure its identifier is
\* not in the store, and a request carrying it is answered not-found.
C2_ClosedSessionDestroyed ==
  \A t \in Transports :
    tr[t].closed =>
      /\ tr[t].sessionId \notin DOMAIN transports
      /\ (Dispatched(ev) /\ ev.req.sid = tr[t].sessionId)
           => (ev.kind = "rejected" /\ ev.status = 400)

\* C3: a request carrying an identifier that is not in the store is answered
\* 400 / -32000 whatever its body; nothing is created, forwarded or changed.
C3_UnknownSessionRejected ==
  [][ (Dispatched(ev') /\ ev'.req.sid \notin {Undefined, ""}
         /\ ev'.req.sid \notin DOMAIN transports)
      => /\ ev'.kind = "rejected"
         /\ ev'.status = 400 /\ ev'.code = -32000
         /\ StoreUntouched
    ]_vars

\* C4: a request without an identifier whose body is no initiation request
\* is answered 400 / -32000; no transport is constructed, no identifier is
\* generated and the store is unchanged.
C4_NonInitWithoutSessionRejected ==
  [][ (Dispatched(ev') /\ ev'.req.sid \in {Undefined, ""}
         /\ ev'.req.body # "initialize")
      => /\ ev'.kind = "rejected"
         /\ ev'.status = 400 /\ ev'.code = -32000
         /\ StoreUntouched
    ]_vars

\* C4 witness: such a request was rejected while sessions exist.
C4_Witness ==
  /\ ev.kind = "rejected"
  /\ ev.req.sid \in {Undefined, ""}
  /\ ev.req.body = "invocation"
  /\ DOMAIN transports # {}

\* C5: a lookup of an identifier that session creation never returned gives
\* not-found, and the keys of the store are identifiers that were issued.
C5_NeverIssuedNotFound ==
  /\ DOMAIN transports \subseteq issued
  /\ \A sid \in SessionHeaders \ {Undefined} :
       sid \notin issued => ~Lookup(transports, sid).truthy

\* C6: every entry of the store is a transport whose handshake has succeeded,
\* kept under its own identifier; a transport whose handshake is under way or
\* has failed is in no entry; an entry appears only in the step that runs the
\* session-initialized callback.
C6_NoUninitializedInStore ==
  [][ /\ \A k \in DOMAIN transports' :
           /\ transports'[k] \in Transports
           /\ tr'[transports'[k]].phase = "initialized"
           /\ tr'[transports'[k]].sessionId = k
      /\ \A t \in Transports :
           tr'[t].phase \in {"unborn", "connecting", "failed"}
             => \A k \in DOMAIN transports' : transports'[k] # t
      /\ (\E k \in DOMAIN transports' : k \notin DOMAIN transports)
           => ev'.kind = "initialized"
    ]_vars

\* C6 witness: a handshake has just failed while another session, whose
\* handshake succeeded, is registered.
C6_Witness ==
  /\ ev.kind = "handshakeFailed"
  /\ tr[ev.t].phase = "failed"
  /\ \E k \in DOMAIN transports : tr[transports[k]].phase = "initialized"

\* The session state machine's transitions.
SessionTransitions ==
  {<<"None", "Uninitialized">>, <<"Uninitialized", "Active">>,
   <<"Active", "Closed">>}

\* C7: a session moves only Uninitialized -> Active -> Closed, never out of
\* Closed, and no request is forwarded into a Closed session.
C7_SessionStateMachine ==
  [][ /\ \A t \in Transports :
           LET before == SessionState(t)
               after == SessionState(t)'
           IN before = after \/ <<before, after>> \in SessionTransitions
      /\ ev'.kind = "forwarded" => ev'.sstate = "Active"
    ]_vars

\* C8: under every interleaving the identifiers of initialized transports
\* are pairwise distinct, every key of the store maps to the transport whose
\* own session id it is, every open session is found under its identifier,
\* and an entry goes or changes only when its own transport closes.
C8_StoreMapsOwnTransport ==
  [][ /\ \A t1, t2 \in Transports :
           (t1 # t2 /\ tr'[t1].phase = "initialized"
              /\ tr'[t2].phase = "initialized")
             => tr'[t1].sessionId # tr'[t2].sessionId
      /\ \A k \in DOMAIN transports' : tr'[transports'[k]].sessionId = k
      /\ \A t \in Transports :
           (tr'[t].phase = "initialized" /\ ~tr'[t].closed)
             => Lookup(transports', tr'[t].sessionId).transport = t
      /\ \A k \in DOMAIN transports :
           \/ k \in DOMAIN transports' /\ transports'[k] = transports[k]
           \/ ev'.kind = "close" /\ tr[ev'.t].sessionId = k
    ]_vars

\* C8 witness: two initiations overlapped and finished in the opposite order.
C8_Witness ==
  /\ tr[1].phase = "initialized" /\ tr[2].phase = "initialized"
  /\ tr[1].sessionId = UuidPool[2] /\ tr[2].sessionId = UuidPool[1]
  /\ Lookup(transports, UuidPool[1]).transport = 2
  /\ Lookup(transports, UuidPool[2]).transport = 1

\* C9: a request to a path other than /healthz is rejected before the
\* dispatcher unless its Authorization header is exactly 'Bearer ' + secret,
\* and always when no secret is configured; a rejected request changes nothing.
C9_AuthGate ==
  [][ /\ (ev'.req.path = "/mcp"
            /\ (secret \in {Undefined, ""}
                  \/ ev'.req.auth # "Bearer " \o secret))
         => ev'.kind \in {"unauthorized", "misconfigured"}
      /\ ev'.kind \in {"unauthorized", "misconfigured"} => StoreUntouched
    ]_vars

\* C10: a close signal for a session that has closed already, or whose
\* identifier is not in the store, leaves the store and the transports as
\* they were.
C10_RemoveIdempotent ==
  [][ (ev'.kind = "close"
         /\ (ev'.sstate = "Closed"
               \/ tr[ev'.t].sessionId \notin DOMAIN transports))
      => transports' = transports /\ tr' = tr
    ]_vars

\* C10 witness: server.ts got a second close signal for a session while
\* another session is registered.
C10_Witness ==
  /\ prog = "server.ts"
  /\ ev.kind = "close" /\ ev.sstate = "Closed"
  /\ tr[ev.t].sessionId \notin DOMAIN transports
  /\ DOMAIN transports # {}

-----------------------------------------------------------------------------
\* Tool calls of a session

\* The step touched nothing of a session other than that of transport t.
OthersUntouched(t) ==
  /\ \A u \in Transports \ {t} : tr'[u] = tr[u] /\ inflight'[u] = inflight[u]
  /\ \A k \in DOMAIN transports \cup DOMAIN transports' :
       \/ k \in DOMAIN transports /\ k \in DOMAIN transports'
            /\ transports'[k] = transports[k]
       \/ t \in Transports /\ k \in {tr[t].sessionId, tr'[t].sessionId}

\* C11: an invocation on an Active session that fails (the registry refuses
\* the tool name or the arguments, or the upstream call fails) is answered
\* with a failure response and ends only that request: the session stays
\* Active and registered under its identifier, so that the dispatcher still
\* routes to it, the store is unchanged and no other pending call is touched.
C11_FailureScopedToRequest ==
  [][ LET t == ev'.t
          refused == /\ ev'.kind = "forwarded" /\ ev'.req.body = "invocation"
                     /\ ev'.code = -32602 /\ ev'.sstate = "Active"
          failed == ev'.kind = "callFailed"
      IN (refused \/ failed)
         => /\ ev'.status = 200
            /\ StoreUntouched
            /\ tr'[t].phase = "initialized" /\ ~tr'[t].closed
            /\ Lookup(transports', tr'[t].sessionId)
                 = [truthy |-> TRUE, transport |-> t]
            /\ inflight'[t] = inflight[t] - (IF failed THEN 1 ELSE 0)
            /\ \A u \in Transports \ {t} : inflight'[u] = inflight[u]
    ]_vars

\* C11 witness: the registry refused a call on an Active session that has an
\* earlier call pending.
C11_Witness ==
  /\ ev.kind = "forwarded" /\ ev.req.body = "invocation" /\ ev.code = -32602
  /\ ev.sstate = "Active"
  /\ inflight[ev.t] > 0
  /\ Lookup(transports, ev.req.sid).transport = ev.t

-----------------------------------------------------------------------------
\* Upstream payloads and their redaction
\*
\* A parsed upstream payload (the value of `await r.json()`): null, or an
\* object that may carry email, phone and transactions. A property that is
\* not there reads as Undefined. transactions is absent, a value that cannot
\* be iterated (an object), or a list whose elements are null or objects with
\* or without a customer record.

MaxTx == 2          \* elements of a transactions list

RedactedEmail == "redacted@example.com"
RedactedPhone == "**********"

UpstreamEmail == "alice@corp.example"
UpstreamPhone == "+1-555-0100"

EmailValues == {Undefined, "", UpstreamEmail}
PhoneValues == {Undefined, UpstreamPhone}

NoCustomer == [tag |-> "absent", email |-> Undefined, phone |-> Undefined]

Customers ==
  {NoCustomer} \cup
  [tag : {"object"}, email : EmailValues, phone : PhoneValues]

NullElement == [tag |-> "null", customer |-> NoCustomer]

Elements == {NullElement} \cup [tag : {"object"}, customer : Customers]

TransactionLists == UNION {[1..n -> Elements] : n \in 0..MaxTx}

NoTransactions == [tag |-> "absent", items |-> <<>>]

TransactionsValues ==
  {NoTransactions, [tag |-> "object", items |-> <<>>]} \cup
  [tag : {"list"}, items : TransactionLists]

NullPayload ==
  [tag |-> "null", email |-> Undefined, phone |-> Undefined,
   transactions |-> NoTransactions]

Payloads ==
  {NullPayload} \cup
  [tag : {"object"}, email : EmailValues, phone : PhoneValues,
   transactions : TransactionsValues]

\* An assignment that marks the field instead of replacing it.
MaskByPrefix(v, mask) == IF Truthy(v) THEN mask \o v ELSE v

\* `if (x.f) x.f = mask`: a truthy field is overwritten with the mask, a
\* falsy or absent one is left as it is.
MaskIfTruthy(v, mask) == IF Truthy(v) THEN mask ELSE v

\* The two assignments on one object that carries email and phone.
MaskRecord(r) ==
  [r EXCEPT !.email = MaskIfTruthy(@, RedactedEmail),
            !.phone = MaskIfTruthy(@, RedactedPhone)]

\* getCustomer: `data?.email`, `data?.phone` on the payload itself.
RedactCustomer(data) ==
  [threw |-> FALSE,
   data  |-> IF data.tag = "null" THEN data ELSE MaskRecord(data)]

\* The loop body on one element: server.ts reads `t.customer`, a TypeError when
\* t is null; part_000 reads `t?.customer`.
ElementThrows(t) == prog = "server.ts" /\ t.tag = "null"

\* The loop body on an element it can read.
RedactElement(t) ==
  IF t.tag = "object" /\ t.customer.tag = "object"
  THEN [t EXCEPT !.customer = MaskRecord(@)]
  ELSE t

\* `for (const t of data?.transactions ?? [])`: what the loop iterates, or a
\* TypeError for a value that is not iterable.
LoopThrows(data) == data.tag = "object" /\ data.transactions.tag = "object"

LoopItems(data) ==
  IF data.tag = "object" /\ data.transactions.tag = "list"
  THEN data.transactions.items
  ELSE <<>>

\* listTransactions: the loop over the transactions; it stops at the first
\* element whose read throws, the elements before it already masked.
RedactTransactions(data) ==
  LET items  == LoopItems(data)
      bad    == {i \in 1..Len(items) : ElementThrows(items[i])}
      stop   == IF bad = {} THEN Len(items) + 1
                ELSE CHOOSE i \in bad : \A j \in bad : i <= j
      masked == [i \in 1..Len(items) |->
                   IF i < stop THEN RedactElement(items[i]) ELSE items[i]]
  IN  [threw |-> LoopThrows(data) \/ bad # {},
       data  |-> IF data.tag = "object" /\ data.transactions.tag = "list"
                 THEN [data EXCEPT !.transactions.items = masked]
                 ELSE data]

\* The redaction step of a tool's handler.
Redact(tool, data) ==
  IF tool = "punchh.getCustomer" THEN RedactCustomer(data)
  ELSE RedactTransactions(data)

\* JSON.stringify and JSON.parse of a payload: the text carries the payload,
\* an absent property stays absent.
JSONStringify(data) == [serialized |-> data]
JSONParse(text) == text.serialized

\* The content a handler returns: server.ts the payload as a 'json' item,
\* part_000 its serialisation as a 'text' item.
Content(data) ==
  IF prog = "server.ts" THEN [type |-> "json", value |-> data]
  ELSE [type |-> "text", value |-> JSONStringify(data)]


-----------------------------------------------------------------------------
\* One tool invocation, from the registry to the result
\*
\* SpecTools follows one tools/call that a session handed to the registry:
\* the lookup of the tool, the parse of the arguments by the tool's
\* inputSchema, the handler's upstream request and what the handler makes of
\* the reply. The session state plays no part and stays as constructed.

MaxIdLen == 1       \* characters of a customer_id

LimitMin == 1
LimitMax == 100
LimitDefault == 25

ToolNames == {"punchh.listTransactions", "punchh.getCustomer", "punchh.refund"}
RegisteredTools == {"punchh.listTransactions", "punchh.getCustomer"}

\* Characters of a customer_id: an unreserved one, the three URL delimiters
\* and the dot.
IdChars == {"a", "/", "?", "#", "."}
Ids == UNION {[1..n -> IdChars] : n \in 0..MaxIdLen}

\* The customer_id argument as sent: left out, a string, or a number.
CustomerIdArgs ==
  {[tag |-> "absent", s |-> <<>>], [tag |-> "number", s |-> <<>>]} \cup
  [tag : {"string"}, s : Ids]

\* The limit argument as sent: left out, a number (held as twice its value,
\* so that 3 is 1.5), or a string.
LimitArgs ==
  {[tag |-> "absent", twice |-> 0], [tag |-> "string", twice |-> 20]} \cup
  [tag : {"number"}, twice : {-2, 0, 1, 2, 3, 50, 200, 201, 202, 1000}]

\* The arguments object of a tools/call; debug is a key no schema declares.
Arguments == [customer_id : CustomerIdArgs, limit : LimitArgs, debug : BOOLEAN]

Issue(path, code, received) == [path |-> path, code |-> code, received |-> received]

\* z.string(): a missing value and a value of another type are invalid_type
\* issues, the missing one reported as "Required" (received undefined).
StringIssues(path, a) ==
  IF a.tag = "absent" THEN {Issue(path, "invalid_type", "undefined")}
  ELSE IF a.tag # "string" THEN {Issue(path, "invalid_type", a.tag)}
  ELSE {}

\* A limit schema without the lower bound.
LimitIssuesNoMin(path, a) ==
  IF a.tag = "absent" THEN {}
  ELSE IF a.tag # "number" THEN {Issue(path, "invalid_type", a.tag)}
  ELSE (IF a.twice % 2 # 0 THEN {Issue(path, "invalid_type", "float")} ELSE {})
       \cup
       (IF a.twice > 2 * LimitMax THEN {Issue(path, "too_big", "number")} ELSE {})

\* z.number().int().min(1).max(100).default(25): a missing value takes the
\* default; every failed check of a present value is an issue.
LimitIssues(path, a) ==
  IF a.tag = "absent" THEN {}
  ELSE IF a.tag # "number" THEN {Issue(path, "invalid_type", a.tag)}
  ELSE (IF a.twice % 2 # 0 THEN {Issue(path, "invalid_type", "float")} ELSE {})
       \cup
       (IF a.twice < 2 * LimitMin THEN {Issue(path, "too_small", "number")} ELSE {})
       \cup
       (IF a.twice > 2 * LimitMax THEN {Issue(path, "too_big", "number")} ELSE {})

\* The issues the tool's inputSchema finds in the arguments. The shape is
\* made an object schema as it is: keys it does not declare are not an issue.
SchemaIssues(tool, args) ==
  StringIssues("customer_id", args.customer_id) \cup
  (IF tool = "punchh.listTransactions" THEN LimitIssues("limit", args.limit)
   ELSE {})

\* No arguments were handed to a handler.
NoInput == [customer_id |-> <<>>, limit |-> 0]

\* The value the schema hands to the handler: the declared keys only, limit
\* with its default (0 where the tool declares no limit).
SchemaOutput(tool, args) ==
  [customer_id |-> args.customer_id.s,
   limit |-> IF tool # "punchh.listTransactions" THEN 0
             ELSE IF args.limit.tag = "absent" THEN LimitDefault
             ELSE args.limit.twice \div 2]

\* encodeURIComponent on the characters of IdChars.
encodeURIComponent(s) ==
  [i \in 1..Len(s) |->
     CASE s[i] = "/" -> "%2F"
       [] s[i] = "?" -> "%3F"
       [] s[i] = "#" -> "%23"
       [] OTHER -> s[i]]

\* The URL after ${PUNCHH_BASE}, as a sequence of characters and literal
\* pieces. server.ts puts customer_id into the listTransactions URL as it is.
CustomersPath == <<"/", "api", "/", "v2", "/", "customers", "/">>

RequestUrl(tool, in) ==
  IF tool = "punchh.getCustomer"
  THEN CustomersPath \o encodeURIComponent(in.customer_id)
  ELSE CustomersPath
       \o (IF prog = "server.ts" THEN in.customer_id
           ELSE encodeURIComponent(in.customer_id))
       \o <<"/", "transactions", "?", "limit=", ToString(in.limit)>>

\* How fetch reads the URL: the fragment starts at the first '#' and is not
\* sent, the query at the first '?' before it, the path is split at '/', and
\* the segments '.' and '..' are resolved.
FirstIndex(s, c) ==
  IF \E i \in 1..Len(s) : s[i] = c
  THEN CHOOSE i \in 1..Len(s) : s[i] = c /\ \A j \in 1..(i - 1) : s[j] # c
  ELSE 0

BeforeFirst(s, c) ==
  IF FirstIndex(s, c) = 0 THEN s ELSE SubSeq(s, 1, FirstIndex(s, c) - 1)

AfterFirst(s, c) ==
  IF FirstIndex(s, c) = 0 THEN <<>> ELSE SubSeq(s, FirstIndex(s, c) + 1, Len(s))

RECURSIVE SplitPath(_)
SplitPath(s) ==
  IF FirstIndex(s, "/") = 0 THEN <<s>>
  ELSE <<BeforeFirst(s, "/")>> \o SplitPath(AfterFirst(s, "/"))

RECURSIVE RemoveDotSegments(_, _)
RemoveDotSegments(segs, out) ==
  IF segs = <<>> THEN out
  ELSE LET seg  == Head(segs)
           last == Len(segs) = 1
       IN  IF seg = <<".">>
           THEN RemoveDotSegments(Tail(segs), IF last THEN Append(out, <<>>) ELSE out)
           ELSE IF seg = <<".", ".">>
           THEN LET up == IF out = <<>> THEN out ELSE SubSeq(out, 1, Len(out) - 1)
                IN  RemoveDotSegments(Tail(segs),
                                      IF last THEN Append(up, <<>>) ELSE up)
           ELSE RemoveDotSegments(Tail(segs), Append(out, seg))

RequestTarget(url) ==
  LET sent == BeforeFirst(url, "#")
      path == BeforeFirst(sent, "?")
  IN  [path  |-> RemoveDotSegments(Tail(SplitPath(path)), <<>>),
       query |-> AfterFirst(sent, "?")]

\* Statuses the upstream answers with, and the bodies: text that is not
\* JSON, or the text of a payload.
Statuses == {200, 204, 299, 300, 404, 500}

NotJson == [json |-> FALSE, data |-> NullPayload]
JsonBody(data) == [json |-> TRUE, data |-> data]

SampleBodies ==
  {NotJson, JsonBody(NullPayload),
   JsonBody([tag |-> "object", email |-> UpstreamEmail, phone |-> UpstreamPhone,
             transactions |-> [tag |-> "list", items |->
               <<[tag |-> "object", customer |->
                   [tag |-> "object", email |-> UpstreamEmail,
                    phone |-> UpstreamPhone]]>>]])}

\* A response that counts redirects as success.
ResponseOkBelow400(status) == status >= 200 /\ status <= 399

\* r.ok
ResponseOk(status) == status >= 200 /\ status <= 299

\* What the caller of a tools/call gets.
NoContent == [type |-> "none", value |-> NullPayload]
NoResult ==
  [kind |-> "none", error |-> "", code |-> 0, issues |-> {}, status |-> 0,
   content |-> NoContent]

\* The registry's refusal: McpError InvalidParams.
InvalidParams(issues) ==
  [NoResult EXCEPT !.kind = "InvalidParams", !.error = "McpError",
                   !.code = -32602, !.issues = issues]

\* A handler that threw: the result is marked isError and carries the message
\* of the error, for `Punchh error ${r.status}` the status.
ToolError(error, status) ==
  [NoResult EXCEPT !.kind = "isError", !.error = error, !.status = status]

ToolResult(content) == [NoResult EXCEPT !.kind = "result", !.content = content]

ReceivedCalls ==
  [pc : {"received"}, tool : ToolNames, args : Arguments,
   in : {NoInput},
   url : {<<>>}, fetches : {0}, status : {0}, body : {NotJson},
   parsed : {FALSE}, redacted : {FALSE}, result : {NoResult}]

InitTools ==
  /\ prog \in Programs
  /\ secret = Undefined
  /\ transports = <<>>
  /\ tr = [t \in Transports |-> NewTransport]
  /\ issued = {}
  /\ ev = Event("start", NoRequest, 0, 0, 0, "None")
  /\ inflight = [t \in Transports |-> 0]
  /\ call \in ReceivedCalls

\* tools/call reaches the registry: an unregistered name and arguments the
\* inputSchema does not accept are refused; otherwise the handler is called
\* with the schema's output.
CallTool ==
  /\ call.pc = "received"
  /\ UNCHANGED <<prog, secret, transports, tr, issued, ev, inflight>>
  /\ call' =
       IF call.tool \notin RegisteredTools
       THEN [call EXCEPT !.pc = "done", !.result = InvalidParams({})]
       ELSE IF SchemaIssues(call.tool, call.args) # {}
       THEN [call EXCEPT !.pc = "done",
                         !.result = InvalidParams(SchemaIssues(call.tool, call.args))]
       ELSE [call EXCEPT !.pc = "handler",
                         !.in = SchemaOutput(call.tool, call.args)]

\* The handler up to `await fetch(url, ...)`.
HandlerFetch ==
  /\ call.pc = "handler"
  /\ UNCHANGED <<prog, secret, transports, tr, issued, ev, inflight>>
  /\ call' = [call EXCEPT !.pc = "awaiting",
                          !.url = RequestUrl(call.tool, call.in),
                          !.fetches = @ + 1]

\* The handler from the upstream's reply to its end: the r.ok check, r.json(),
\* the redaction, the returned content.
FetchReply(status, body) ==
  /\ call.pc = "awaiting"
  /\ UNCHANGED <<prog, secret, transports, tr, issued, ev, inflight>>
  /\ LET out == Redact(call.tool, body.data) IN
     call' =
       IF ~ResponseOk(status)
       THEN [call EXCEPT !.pc = "done", !.status = status, !.body = body,
                         !.result = ToolError("Error", status)]
       ELSE IF ~body.json
       THEN [call EXCEPT !.pc = "done", !.status = status, !.body = body,
                         !.result = ToolError("SyntaxError", 0)]
       ELSE IF out.threw
       THEN [call EXCEPT !.pc = "done", !.status = status, !.body = body,
                         !.parsed = TRUE, !.redacted = TRUE,
                         !.result = ToolError("TypeError", 0)]
       ELSE [call EXCEPT !.pc = "done", !.status = status, !.body = body,
                         !.parsed = TRUE, !.redacted = TRUE,
                         !.result = ToolResult(Content(out.data))]

NextTools ==
  \/ CallTool
  \/ HandlerFetch
  \/ \E status \in Statuses, body \in SampleBodies : FetchReply(status, body)

SpecTools == InitTools /\ [][NextTools]_vars

\* SpecRedact follows one well-formed call of either tool whose upstream
\* answers 200 with any payload.
InitRedact ==
  /\ InitTools
  /\ call.tool \in RegisteredTools
  /\ call.args = [customer_id |-> [tag |-> "string", s |-> <<"a">>],
                  limit |-> [tag |-> "absent", twice |-> 0],
                  debug |-> FALSE]

NextRedact ==
  \/ CallTool
  \/ HandlerFetch
  \/ \E data \in Payloads : FetchReply(200, JsonBody(data))

SpecRedact == InitRedact /\ [][NextRedact]_vars


-----------------------------------------------------------------------------
\* Properties of one tool invocation

\* The handler of the call was entered.
HandlerInvoked == call.pc \in {"handler", "awaiting"} \/ call.fetches > 0
                  \/ call.result.kind \in {"result", "isError"}

\* The call was refused by the registry before any upstream request.
RefusedBeforeFetch ==
  call.pc = "done" /\ call.result.kind = "InvalidParams" /\ call.fetches = 0

\* The refusal names a missing value (zod's "Required") at the path.
MissingArgument(path) ==
  \E i \in call.result.issues :
    i.path = path /\ i.code = "invalid_type" /\ i.received = "undefined"

\* The refusal names a present but unacceptable value at the path.
InvalidArgument(path) ==
  \E i \in call.result.issues : i.path = path /\ i.received # "undefined"

\* C12: for listTransactions, the handler runs (and the upstream is called)
\* only for a string customer_id and a limit that is left out or an integer in
\* 1..100; a limit left out reaches the handler as 25; a customer_id left out
\* is refused as missing, a limit out of range or not an integer as invalid;
\* a refused call makes no upstream request.
C12_ListTransactionsValidation ==
  LET a        == call.args
      limitOk  == \/ a.limit.tag = "absent"
                  \/ /\ a.limit.tag = "number"
                     /\ a.limit.twice % 2 = 0
                     /\ a.limit.twice >= 2
                     /\ a.limit.twice <= 200
      valid    == a.customer_id.tag = "string" /\ limitOk
  IN  (call.tool = "punchh.listTransactions" /\ call.pc # "received") =>
        /\ HandlerInvoked => valid
        /\ (HandlerInvoked /\ a.limit.tag = "absent") => call.in.limit = 25
        /\ (HandlerInvoked /\ a.limit.tag = "number") =>
             2 * call.in.limit = a.limit.twice
        /\ ~valid => RefusedBeforeFetch
        /\ a.customer_id.tag = "absent" => MissingArgument("customer_id")
        /\ (a.limit.tag = "number" /\ ~limitOk) => InvalidArgument("limit")

\* C12 witness: a call without limit reached the upstream with limit 25.
C12_Witness ==
  /\ call.tool = "punchh.listTransactions"
  /\ call.pc = "awaiting"
  /\ call.args.limit.tag = "absent"
  /\ call.in.limit = 25
  /\ call.fetches = 1

\* C13: a reply with a status outside 200..299 ends the call with an error
\* that carries the status; the body was neither parsed nor redacted, no
\* content is returned, and the upstream was asked once.
C13_UpstreamErrorCarriesStatus ==
  (call.pc = "done" /\ call.fetches > 0
   /\ (call.status < 200 \/ call.status > 299)) =>
    /\ call.result.kind = "isError"
    /\ call.result.error = "Error"
    /\ call.result.status = call.status
    /\ ~call.parsed
    /\ ~call.redacted
    /\ call.result.content = NoContent
    /\ call.fetches = 1

\* C13 witness: the upstream answered 404 with a JSON body.
C13_Witness ==
  /\ call.pc = "done"
  /\ call.status = 404
  /\ call.body.json
  /\ call.body.data.email = UpstreamEmail
  /\ call.result.status = 404

\* C16: a call of a registered tool with an argument its schema does not
\* declare is refused and the handler is not invoked.
C16_UndeclaredArgumentRejected ==
  LET undeclared ==
        \/ call.args.debug
        \/ call.tool = "punchh.getCustomer" /\ call.args.limit.tag # "absent"
  IN  (call.tool \in RegisteredTools /\ call.pc # "received" /\ undeclared) =>
        RefusedBeforeFetch /\ ~HandlerInvoked

\* decodeURIComponent on the escapes of encodeURIComponent.
decodeURIComponent(s) ==
  [i \in 1..Len(s) |->
     CASE s[i] = "%2F" -> "/"
       [] s[i] = "%3F" -> "?"
       [] s[i] = "%23" -> "#"
       [] OTHER -> s[i]]

\* C19: the request of either tool goes to /api/v2/customers/<id> (followed
\* by /transactions and the query limit=<limit> for listTransactions), where
\* the one segment <id> decodes to the customer_id, whatever characters the
\* customer_id has.
C19_IdentifierIsOneSegment ==
  call.fetches > 0 =>
    LET target == RequestTarget(call.url)
        n      == IF call.tool = "punchh.getCustomer" THEN 4 ELSE 5
    IN  /\ Len(target.path) = n
        /\ SubSeq(target.path, 1, 3) = << <<"api">>, <<"v2">>, <<"customers">> >>
        /\ decodeURIComponent(target.path[4]) = call.in.customer_id
        /\ call.tool = "punchh.listTransactions" =>
             /\ target.path[5] = <<"transactions">>
             /\ target.query = <<"limit=", ToString(call.in.limit)>>
        /\ call.tool = "punchh.getCustomer" => target.query = <<>>


-----------------------------------------------------------------------------
\* Properties of the redaction

\* The payload the caller reads out of the returned content.
Returned ==
  IF call.result.content.type = "text"
  THEN JSONParse(call.result.content.value)
  ELSE call.result.content.value

\* Every email and phone that the upstream record has is the placeholder in
\* the returned record.
FieldsRedacted(up, out) ==
  /\ up.email # Undefined => out.email = RedactedEmail
  /\ up.phone # Undefined => out.phone = RedactedPhone

\* The customer records nested in the transactions of a payload.
NestedRecords(data) ==
  IF data.tag = "object" /\ data.transactions.tag = "list"
  THEN {i \in 1..Len(data.transactions.items) :
          /\ data.transactions.items[i].tag = "object"
          /\ data.transactions.items[i].customer.tag = "object"}
  ELSE {}

\* The payload has no email and no phone, at the top or nested.
HasNoFields(data) ==
  /\ data.email = Undefined
  /\ data.phone = Undefined
  /\ \A i \in NestedRecords(data) :
       /\ data.transactions.items[i].customer.email = Undefined
       /\ data.transactions.items[i].customer.phone = Undefined

\* C14: in every result returned for a payload, each email and phone of a
\* customer record, at the top of the payload or nested in an element of its
\* transactions, is the placeholder resp. the mask, and a payload with no such
\* field is returned as it came.
C14_NoUpstreamEmailOrPhone ==
  (call.pc = "done" /\ call.result.kind = "result") =>
    LET up == call.body.data IN
    /\ up.tag = "object" => FieldsRedacted(up, Returned)
    /\ \A i \in NestedRecords(up) :
         FieldsRedacted(up.transactions.items[i].customer,
                        Returned.transactions.items[i].customer)
    /\ HasNoFields(up) => Returned = up

\* C15: redacting a redacted payload changes nothing, whether the first
\* redaction came to its end (and its outcome was returned) or threw.
C15_RedactionIdempotent ==
  (call.pc = "done" /\ call.redacted) =>
    LET once == Redact(call.tool, call.body.data) IN
    /\ Redact(call.tool, once.data) = once
    /\ call.result.kind = "result" =>
         Redact(call.tool, Returned) = [threw |-> FALSE, data |-> Returned]

\* C15 witness: a returned payload in which the redaction replaced a nested
\* email and left a null element alone.
C15_Witness ==
  /\ call.pc = "done"
  /\ call.result.kind = "result"
  /\ call.tool = "punchh.listTransactions"
  /\ Len(call.body.data.transactions.items) = 2
  /\ call.body.data.transactions.items[1].customer.email = UpstreamEmail
  /\ call.body.data.transactions.items[2].tag = "null"
  /\ Returned.transactions.items[1].customer.email = RedactedEmail

\* C20: whatever payload was parsed, the redaction does not throw: the call
\* ends with a result.
C20_RedactionNeverRaises ==
  (call.pc = "done" /\ call.parsed) => call.result.kind = "result"

=============================================================================
